---- MODULE Spec2Model ----
(***************************************************************************)
(* Multi-objective multi-fidelity Bayesian optimisation tutorial           *)
(* (Multi_objective_multi_fidelity_BO.py).                                 *)
(*                                                                         *)
(* Real numbers are fixed-point integers with three decimals: the number r *)
(* is stored as r * Scale.  A design point is a tuple <<x1, x2, s>> whose  *)
(* last coordinate s is the fidelity; a dataset is a sequence of rows.     *)
(***************************************************************************)
EXTENDS Integers, Sequences, FiniteSets

\* One unit (1.0) of the fixed-point representation.
Scale == 10 * 10 * 10

\* ------------------------------------------------------------------------
\* Arithmetic of the library calls (torch.exp, torch.log, math.exp)
\* ------------------------------------------------------------------------

\* Sum of the Taylor series of exp(y), from the term t = y^k / k! onwards.
RECURSIVE ExpTerms(_, _, _)
ExpTerms(y, k, t) ==
    IF t = 0 THEN 0
    ELSE t + ExpTerms(y, k + 1, (t * y) \div ((k + 1) * Scale))

\* torch.exp / math.exp on a fixed-point argument y >= 0.
ExpFP(y) == ExpTerms(y, 0, Scale)

\* Bisection for the greatest y in lo..hi with ExpFP(y) <= x.
RECURSIVE LogSearch(_, _, _)
LogSearch(x, lo, hi) ==
    IF lo >= hi THEN lo
    ELSE LET mid == (lo + hi + 1) \div 2
         IN  IF ExpFP(mid) <= x THEN LogSearch(x, mid, hi)
             ELSE LogSearch(x, lo, mid - 1)

\* torch.log on a fixed-point argument x >= 1.0 (the only arguments the
\* program passes are >= 1.0).
LogFP(x) == LogSearch(x, 0, 8 * Scale)

\* ------------------------------------------------------------------------
\* Problem and optimisation settings
\* ------------------------------------------------------------------------

\* BATCH_SIZE = 1
BATCH_SIZE == 1

\* Variant of n_INIT: an initial budget of 3 full-fidelity evaluations.
n_INIT_three == 3 * Scale

\* n_INIT = 2 (full-fidelity evaluations), in fixed point.
n_INIT == 2 * Scale

\* EVAL_BUDGET = 2.1 if SMOKE_TEST else 4, in fixed point.
EVAL_BUDGET(smoke) == IF smoke THEN 2100 ELSE 4 * Scale

\* standard_bounds: row 1 the lower, row 2 the upper bounds of [0,1]^3.
standard_bounds == << <<0, 0, 0>>, <<Scale, Scale, Scale>> >>

\* BC.bounds of MOMFBraninCurrin: the unit cube.
BC_bounds == << <<0, 0, 0>>, <<Scale, Scale, Scale>> >>

\* BC.dim
dim_x == Len(BC_bounds[1])

\* target_fidelities = {2: 1.0}: the (0-based) index 2 is the last coordinate.
target_fidelities == [i \in {dim_x} |-> Scale]

\* ------------------------------------------------------------------------
\* Cost model
\* ------------------------------------------------------------------------

\* exp_arg = 4.8
exp_arg == 4800

\* cost_func(x) = exp(4.8 * x)
cost_func(x) == ExpFP((exp_arg * x) \div Scale)

\* Fidelity coordinate X[..., -1] of a row.
Fid(row) == row[Len(row)]

\* cost_callable(X) = cost_func(X[..., -1:]): one cost per row.
cost_callable(X) == [i \in 1..Len(X) |-> cost_func(Fid(X[i]))]

\* Tensor.sum()
RECURSIVE SumSeq(_)
SumSeq(s) == IF s = <<>> THEN 0 ELSE s[1] + SumSeq(Tail(s))

\* ------------------------------------------------------------------------
\* Collaborators outside the script
\* ------------------------------------------------------------------------

\* BC(x) for one design point: the synthetic two-objective function with one
\* fidelity coordinate (negate=True, so both objectives are maximised and
\* are non-negative).  The first objective grows with x1 and is
\* under-estimated at low fidelity; the second falls with x1, grows with x2
\* and is over-estimated at low fidelity.  At fidelity 1 they are x1 and
\* (1 - x1) * (1 + x2) / 2.
BC_eval(x) ==
    << (x[1] * (3 * Scale + x[3])) \div (4 * Scale),
       ((((Scale - x[1]) * (Scale + x[2])) \div (2 * Scale)) * (2 * Scale - x[3]))
           \div Scale >>

\* BC(X) for a batch of design points.
BC(X) == [i \in 1..Len(X) |-> BC_eval(X[i])]

\* unnormalize(X, bounds) = X * (upper - lower) + lower, per coordinate.
unnormalize(X, bounds) ==
    [i \in 1..Len(X) |->
        [j \in 1..Len(X[i]) |->
            (X[i][j] * (bounds[2][j] - bounds[1][j])) \div Scale + bounds[1][j]]]

\* ------------------------------------------------------------------------
\* State
\* ------------------------------------------------------------------------

VARIABLES
    SMOKE_TEST,      \* os.environ.get("SMOKE_TEST") is set
    strategy,        \* the cell being run: "momf", "kg", "qnehvi"; "gen" for a
                     \* bare call of gen_init_data(n)
    pc,              \* position in the cell
    n,               \* gen_init_data's argument
    gen_total_cost,  \* gen_init_data's local total_cost
    train_x,         \* train_x_momf / train_x_kg / train_x_qnehvi
    train_obj,       \* train_obj_momf / train_obj_kg / train_obj_qnehvi
    total_cost,      \* the cell's cost ledger
    iteration,       \* the cell's iteration counter
    candidates,      \* optimize_acqf's candidates, as passed to unnormalize
    vals,            \* optimize_acqf's acquisition value
    new_x,           \* the batch returned by optimize_*_and_get_obs
    new_obj,
    pymoo_import,    \* outcome of the pymoo imports: "untried", "ok", "ImportError"
    get_pareto,      \* the definition of get_pareto in use
    is_mf_model,     \* get_pareto's argument
    model,           \* posterior mean of the fitted model get_pareto is given
    rand_X,          \* torch.rand(...) / res.X: the designs get_pareto starts from
    discrete_set,    \* the candidate set handed to the model (X in the NSGA-II
                     \* definition)
    preds,           \* posterior means of the candidates
    pareto_mask,     \* the non-domination filter's mask
    pareto_X,        \* the candidates kept by the mask
    true_X,          \* the designs evaluated on the true function
    hypervolume,     \* get_pareto's result
    inv_u,           \* inv_transform's argument u: a tensor of uniform draws
    inv_s            \* inv_transform's return value, one entry per entry of u

genVars == <<n, gen_total_cost>>
dataVars == <<train_x, train_obj>>
loopVars == <<total_cost, iteration, candidates, vals, new_x, new_obj>>
paretoLocals == <<is_mf_model, model, rand_X, discrete_set, preds, pareto_mask,
                  pareto_X, true_X>>
paretoVars == <<pymoo_import, get_pareto, paretoLocals, hypervolume>>
invVars == <<inv_u, inv_s>>
vars == <<SMOKE_TEST, strategy, pc, genVars, dataVars, loopVars, paretoVars, invVars>>

\* No bare call of inv_transform is being followed.
InvNotStarted ==
    /\ inv_u = <<>>
    /\ inv_s = <<>>

\* The evaluation cell has not run: get_pareto is not yet defined.
ParetoNotStarted ==
    /\ pymoo_import = "untried"
    /\ get_pareto = "undefined"
    /\ is_mf_model = TRUE
    /\ model = <<>>
    /\ rand_X = <<>>
    /\ discrete_set = <<>>
    /\ preds = <<>>
    /\ pareto_mask = <<>>
    /\ pareto_X = <<>>
    /\ true_X = <<>>
    /\ hypervolume = 0

\* ------------------------------------------------------------------------
\* Bounds of the model
\* ------------------------------------------------------------------------

\* Most draws one call of gen_init_data makes.
MaxDraws == 4

\* Values torch.rand(1, 3) takes in the model: each coordinate in [0, 1).
RandRows == { <<0, 500, 0>>, <<250, 750, 990>>, <<999, 0, 999>> }

\* Budgets a bare call of gen_init_data is given (0.5, 1 and 2 evaluations).
GenBudgets == { Scale \div 2, Scale, n_INIT }

\* ------------------------------------------------------------------------
\* Fidelity-biased sampler
\* ------------------------------------------------------------------------

\* exp(24 / 5)
Exp24_5 == ExpFP((24 * Scale) \div 5)

\* Variant of inv_transform: the term "- u" of the denominator left out.
inv_transform_no_u(u) ==
    (5 * LogFP((-Exp24_5 * Scale) \div ((Exp24_5 * u) \div Scale - Exp24_5 - 1)))
        \div 24

\* Variant of inv_transform: the factor 1 / 4 for 5 / 24.
inv_transform_quarter(u) ==
    LogFP((-Exp24_5 * Scale) \div ((Exp24_5 * u) \div Scale - u - Exp24_5)) \div 4

\* inv_transform(u) = 5 / 24 * log(-exp(24/5) / (exp(24/5) * u - u - exp(24/5)))
inv_transform(u) ==
    (5 * LogFP((-Exp24_5 * Scale) \div ((Exp24_5 * u) \div Scale - u - Exp24_5)))
        \div 24

\* Variant of total_cost_limit: the budget unit taken at fidelity 0
\* (torch.zeros for torch.ones).
total_cost_limit_zeros(budget) ==
    (budget * cost_callable(<< <<0, 0, 0>> >>)[1]) \div Scale

\* total_cost_limit = n * cost_callable(torch.ones(1, 3)).item()
total_cost_limit(budget) ==
    (budget * cost_callable(<< <<Scale, Scale, Scale>> >>)[1]) \div Scale

\* new_x[:, -1] = inv_transform(new_x[:, -1])
BiasFidelity(row) == [row EXCEPT ![Len(row)] = inv_transform(row[Len(row)])]

\* Variant of DropLast: train_x[1:], the first point dropped instead.
DropFirst(X) == IF X = <<>> THEN X ELSE Tail(X)

\* Variant of DropLast: the overshooting point is kept.
DropNone(X) == X

\* train_x[:-1]
DropLast(X) == SubSeq(X, 1, Len(X) - 1)

\* One pass of gen_init_data's while loop.
GenDraw ==
    /\ pc = "gen"
    /\ gen_total_cost < total_cost_limit(n)
    /\ Len(train_x) < MaxDraws
    /\ \E r \in RandRows :
         LET row == BiasFidelity(r)
         IN  /\ gen_total_cost' = gen_total_cost + cost_callable(<<row>>)[1]
             /\ train_x' = train_x \o <<row>>
    /\ UNCHANGED <<invVars, paretoVars, SMOKE_TEST, strategy, pc, n, train_obj, loopVars>>

\* The loop's exit and the return of gen_init_data.
GenReturn ==
    /\ pc = "gen"
    /\ ~(gen_total_cost < total_cost_limit(n))
    /\ train_x' = DropLast(train_x)
    /\ train_obj' = BC(DropLast(train_x))
    /\ pc' = "gen_done"
    /\ UNCHANGED <<invVars, paretoVars, SMOKE_TEST, strategy, genVars, loopVars>>

\* A bare call gen_init_data(n).
InitGen ==
    /\ SMOKE_TEST \in BOOLEAN
    /\ strategy = "gen"
    /\ pc = "gen"
    /\ n \in GenBudgets
    /\ gen_total_cost = 0
    /\ train_x = <<>>
    /\ train_obj = <<>>
    /\ total_cost = 0
    /\ iteration = 0
    /\ candidates = <<>>
    /\ vals = 0
    /\ new_x = <<>>
    /\ new_obj = <<>>
    /\ ParetoNotStarted
    /\ InvNotStarted

NextGen == GenDraw \/ GenReturn

SpecGen == InitGen /\ [][NextGen]_vars

\* ------------------------------------------------------------------------
\* The inverse transform on its own
\* ------------------------------------------------------------------------

\* Number of steps of the grid of uniform values.
UPoints == 60

\* Values of a uniform(0,1) variable in the model, both ends included.
UGrid == { (k * Scale) \div UPoints : k \in 0..UPoints }

\* 1 / c(s) for the cost c = cost_func.
InvCost(s) == (Scale * Scale) \div cost_func(s)

\* The CDF on [0, 1] of "the probability distribution with PDF proportional
\* to 1/(c(x))": F(s) = (1 - 1/c(s)) / (1 - 1/c(1)).
FidelityCDF(s) == ((Scale - InvCost(s)) * Scale) \div (Scale - InvCost(Scale))

\* A call inv_transform(u) on a tensor u: the formula acts elementwise.
InvTransformCall ==
    /\ pc = "inv"
    /\ inv_s' = [i \in 1..Len(inv_u) |-> inv_transform(inv_u[i])]
    /\ pc' = "inv_done"
    /\ UNCHANGED <<paretoVars, SMOKE_TEST, strategy, genVars, dataVars, loopVars, inv_u>>

\* A bare call of inv_transform on a tensor of two uniform values.
InitInv ==
    /\ SMOKE_TEST \in BOOLEAN
    /\ strategy = "inv"
    /\ pc = "inv"
    /\ n = n_INIT
    /\ gen_total_cost = 0
    /\ train_x = <<>>
    /\ train_obj = <<>>
    /\ total_cost = 0
    /\ iteration = 0
    /\ candidates = <<>>
    /\ vals = 0
    /\ new_x = <<>>
    /\ new_obj = <<>>
    /\ ParetoNotStarted
    /\ inv_u \in [1..2 -> UGrid]
    /\ inv_s = <<>>

NextInv == InvTransformCall

SpecInv == InitInv /\ [][NextInv]_vars

\* ------------------------------------------------------------------------
\* Bounds of the optimisation loops
\* ------------------------------------------------------------------------

\* Most iterations a loop is followed for when candidates are unrestricted.
MaxIter == 3

\* Candidates optimize_acqf returns for bounds [0,1]^3 (bounds included).
CandRows == { <<200, 800, 500>>, <<1000, 0, 1000>>, <<0, 1000, 0>> }

\* Acquisition values optimize_acqf returns (options "nonnegative").
AcqVals == { 0, 7 }

\* q-batches of rows drawn from a set.
Batches(rows, q) == [1..q -> rows]

\* ------------------------------------------------------------------------
\* Observation helpers
\* ------------------------------------------------------------------------

\* Variant of fid_obj: the first coordinate taken for the fidelity.
fid_obj_first(X) == [i \in 1..Len(X) |-> 1 * X[i][1]]

\* fid_obj(X) = 1 * X[..., -1]
fid_obj(X) == [i \in 1..Len(X) |-> 1 * Fid(X[i])]

\* get_objective_momf(x): BC(x) with the fidelity objective concatenated.
get_objective_momf(x) ==
    LET y == BC(x)
        fid == fid_obj(x)
    IN  [i \in 1..Len(x) |-> y[i] \o <<fid[i]>>]

\* Variant of ForceFidelity: the zero acquisition value is not acted on.
ForceNothing(cand, val) == cand

\* if vals.item() == 0.0: candidates[:, -1] = 0.0
ForceFidelity(cand, val) ==
    IF val = 0
    THEN [i \in 1..Len(cand) |-> [cand[i] EXCEPT ![Len(cand[i])] = 0]]
    ELSE cand

\* X[:, :2]: the non-fidelity coordinates.
NonFidelity(X) == [i \in 1..Len(X) |-> SubSeq(X[i], 1, Len(X[i]) - 1)]

\* torch.cat([new_x, torch.ones(q, 1)], dim=-1)
AppendOnes(X) == [i \in 1..Len(X) |-> X[i] \o <<Scale>>]

\* Variant of BudgetLimit: the factor EVAL_BUDGET left out.
BudgetLimit_unit == cost_func(Scale)

\* EVAL_BUDGET * cost_func(1)
BudgetLimit == (EVAL_BUDGET(SMOKE_TEST) * cost_func(Scale)) \div Scale

\* ------------------------------------------------------------------------
\* MOMF cell
\* ------------------------------------------------------------------------

\* train_obj_momf = get_objective_momf(train_x_momf); iteration = 0;
\* total_cost = cost_callable(train_x_momf).sum().item()
MOMFSetup ==
    /\ strategy = "momf"
    /\ pc = "gen_done"
    /\ train_obj' = get_objective_momf(train_x)
    /\ iteration' = 0
    /\ total_cost' = SumSeq(cost_callable(train_x))
    /\ pc' = "loop"
    /\ UNCHANGED <<invVars, paretoVars, SMOKE_TEST, strategy, genVars, train_x,
                   candidates, vals, new_x, new_obj>>

\* optimize_MOMF_and_get_obs, called while total_cost < EVAL_BUDGET * cost_func(1).
optimize_MOMF_and_get_obs(rows, acq) ==
    /\ strategy = "momf"
    /\ pc = "loop"
    /\ total_cost < BudgetLimit
    /\ \E cand \in Batches(rows, BATCH_SIZE), val \in acq :
         /\ vals' = val
         /\ candidates' = ForceFidelity(cand, val)
         /\ new_x' = unnormalize(candidates', standard_bounds)
         /\ new_obj' = get_objective_momf(new_x')
    /\ pc' = "update"
    /\ UNCHANGED <<invVars, paretoVars, SMOKE_TEST, strategy, genVars, dataVars,
                   total_cost, iteration>>

\* ------------------------------------------------------------------------
\* MF-HVKG cell
\* ------------------------------------------------------------------------

\* train_x_kg, train_obj_kg = gen_init_data(n_INIT); iteration = 0;
\* total_cost = cost_callable(train_x_kg).sum().item()
KGSetup ==
    /\ strategy = "kg"
    /\ pc = "gen_done"
    /\ iteration' = 0
    /\ total_cost' = SumSeq(cost_callable(train_x))
    /\ pc' = "loop"
    /\ UNCHANGED <<invVars, paretoVars, SMOKE_TEST, strategy, genVars, dataVars,
                   candidates, vals, new_x, new_obj>>

\* optimize_HVKG_and_get_obs, called while total_cost < EVAL_BUDGET * cost_func(1).
optimize_HVKG_and_get_obs(rows, acq) ==
    /\ strategy = "kg"
    /\ pc = "loop"
    /\ total_cost < BudgetLimit
    /\ \E cand \in Batches(rows, BATCH_SIZE), val \in acq :
         /\ vals' = val
         /\ candidates' = ForceFidelity(cand, val)
         /\ new_x' = unnormalize(candidates', BC_bounds)
         /\ new_obj' = BC(new_x')
    /\ pc' = "update"
    /\ UNCHANGED <<invVars, paretoVars, SMOKE_TEST, strategy, genVars, dataVars,
                   total_cost, iteration>>

\* ------------------------------------------------------------------------
\* qNEHVI cell
\* ------------------------------------------------------------------------

\* train_x_qnehvi[:, -1] = 1
FullFidelity(X) == [i \in 1..Len(X) |-> [X[i] EXCEPT ![Len(X[i])] = Scale]]

\* train_x_qnehvi = torch.rand(2, 3); train_x_qnehvi[:, -1] = 1;
\* train_obj_qnehvi = BC(train_x_qnehvi); iteration = 0;
\* total_cost = cost_callable(train_x_qnehvi).sum().item()
QNEHVISetup ==
    /\ strategy = "qnehvi"
    /\ pc = "start"
    /\ \E X \in Batches(RandRows, 2) :
         /\ train_x' = FullFidelity(X)
         /\ train_obj' = BC(train_x')
         /\ total_cost' = SumSeq(cost_callable(train_x'))
    /\ iteration' = 0
    /\ pc' = "loop"
    /\ UNCHANGED <<invVars, paretoVars, SMOKE_TEST, strategy, genVars, candidates,
                   vals, new_x, new_obj>>

\* optimize_qNEHVI_and_get_obs, called while total_cost < EVAL_BUDGET * cost_func(1):
\* the optimiser works on standard_bounds[:, :2] and its value is discarded.
optimize_qNEHVI_and_get_obs(rows, acq) ==
    /\ strategy = "qnehvi"
    /\ pc = "loop"
    /\ total_cost < BudgetLimit
    /\ \E cand \in Batches(rows, BATCH_SIZE), val \in acq :
         /\ vals' = val
         /\ candidates' = NonFidelity(cand)
         /\ new_x' = AppendOnes(unnormalize(candidates', NonFidelity(standard_bounds)))
         /\ new_obj' = BC(new_x')
    /\ pc' = "update"
    /\ UNCHANGED <<invVars, paretoVars, SMOKE_TEST, strategy, genVars, dataVars,
                   total_cost, iteration>>

\* ------------------------------------------------------------------------
\* Common tail of the three loop bodies
\* ------------------------------------------------------------------------

\* Variant of AddCost: "=" for "+=".
AddCost_overwrite(ledger, X) == SumSeq(cost_callable(X))

\* Variant of AddCost: every row of the batch charged the full-fidelity cost.
AddCost_full(ledger, X) == ledger + Len(X) * cost_func(Scale)

\* total_cost += cost_callable(new_x).sum().item()
AddCost(ledger, X) == ledger + SumSeq(cost_callable(X))

\* Variant of Cat: torch.cat([new_x, train_x]), the batch put in front.
Cat_prepend(train, new) == new \o train

\* torch.cat([train, new], dim=0)
Cat(train, new) == train \o new

\* train_x = torch.cat([train_x, new_x]); train_obj = torch.cat([train_obj, new_obj]);
\* iteration += 1; total_cost += cost_callable(new_x).sum().item()
Update ==
    /\ pc = "update"
    /\ train_x' = Cat(train_x, new_x)
    /\ train_obj' = Cat(train_obj, new_obj)
    /\ iteration' = iteration + 1
    /\ total_cost' = AddCost(total_cost, new_x)
    /\ pc' = "loop"
    /\ UNCHANGED <<invVars, paretoVars, SMOKE_TEST, strategy, genVars, candidates,
                   vals, new_x, new_obj>>

\* The while condition total_cost < EVAL_BUDGET * cost_func(1) fails.
LoopExit ==
    /\ pc = "loop"
    /\ ~(total_cost < BudgetLimit)
    /\ pc' = "done"
    /\ UNCHANGED <<invVars, paretoVars, SMOKE_TEST, strategy, genVars, dataVars,
                   loopVars>>

\* ------------------------------------------------------------------------
\* The script: one of the three cells, from its first statement
\* ------------------------------------------------------------------------

Init ==
    /\ SMOKE_TEST \in BOOLEAN
    /\ strategy \in {"momf", "kg", "qnehvi"}
    /\ pc = IF strategy = "qnehvi" THEN "start" ELSE "gen"
    /\ n = n_INIT
    /\ gen_total_cost = 0
    /\ train_x = <<>>
    /\ train_obj = <<>>
    /\ total_cost = 0
    /\ iteration = 0
    /\ candidates = <<>>
    /\ vals = 0
    /\ new_x = <<>>
    /\ new_obj = <<>>
    /\ ParetoNotStarted
    /\ InvNotStarted

Next ==
    \/ GenDraw
    \/ GenReturn
    \/ MOMFSetup
    \/ KGSetup
    \/ QNEHVISetup
    \/ (iteration < MaxIter /\ optimize_MOMF_and_get_obs(CandRows, AcqVals))
    \/ (iteration < MaxIter /\ optimize_HVKG_and_get_obs(CandRows, AcqVals))
    \/ (iteration < MaxIter /\ optimize_qNEHVI_and_get_obs(CandRows, AcqVals))
    \/ Update
    \/ LoopExit

Spec == Init /\ [][Next]_vars

\* ------------------------------------------------------------------------
\* The smoke-test run (EVAL_BUDGET = 2.1) followed to the end of its loop:
\* the optimiser returns the cheapest or the dearest candidate
\* ------------------------------------------------------------------------

\* Candidates of the runs followed to their end: fidelity 0 and fidelity 1.
LiveRows == { <<0, 1000, 0>>, <<0, 1000, 1000>> }

InitLive == Init /\ SMOKE_TEST = TRUE

NextLive ==
    \/ GenDraw
    \/ GenReturn
    \/ MOMFSetup
    \/ KGSetup
    \/ QNEHVISetup
    \/ optimize_MOMF_and_get_obs(LiveRows, AcqVals)
    \/ optimize_HVKG_and_get_obs(LiveRows, AcqVals)
    \/ optimize_qNEHVI_and_get_obs(LiveRows, AcqVals)
    \/ Update
    \/ LoopExit

\* The script is one sequential thread: it always takes its next step.
SpecLive == InitLive /\ [][NextLive]_vars /\ WF_vars(NextLive)

\* ------------------------------------------------------------------------
\* Bounds of the Pareto evaluator
\* ------------------------------------------------------------------------

\* NUM_DISCRETE_POINTS (100 or 100000 in the script), scaled down.
NUM_DISCRETE_POINTS == 3

\* CHUNK_SIZE (512 in the script), scaled down so that the last chunk is short.
CHUNK_SIZE == 2

\* Most designs in the result res.X of the NSGA-II run.
MaxFront == 3

\* Values of the non-fidelity coordinates drawn by torch.rand(N, dim_x - 1) and
\* returned by the NSGA-II run.
ParetoRand == { <<250, 999>>, <<500, 500>>, <<750, 0>> }

\* Posterior means the fitted model may predict for a design.
PredVals == { <<1, 2>>, <<2, 1>>, <<1, 1>> }

\* Sequences over S of length lo..hi.
SeqsOf(S, lo, hi) == UNION { [1..k -> S] : k \in lo..hi }

\* ------------------------------------------------------------------------
\* Collaborators of the Pareto evaluator
\* ------------------------------------------------------------------------

\* BC.ref_point
BC_ref_point == <<0, 0>>

\* BC.max_hv: the hypervolume of the true Pareto front at the target
\* fidelity.  For BC_eval the front at fidelity 1 is the segment
\* y1 + y2 = 1 (x2 = 1), of hypervolume 1/2.
BC_max_hv == (Scale * Scale) \div 2

\* a dominates b: at least as good on every objective, better on one.
Dominates(a, b) ==
    /\ \A k \in 1..Len(a) : a[k] >= b[k]
    /\ \E k \in 1..Len(a) : a[k] > b[k]

\* is_non_dominated / _is_non_dominated_loop: the mask of the rows of Y that
\* no other row dominates.
is_non_dominated(Y) ==
    [i \in 1..Len(Y) |-> ~ \E j \in 1..Len(Y) : Dominates(Y[j], Y[i])]

\* project_to_target_fidelity(X, d, target_fidelities): rows that hold the
\* fidelity coordinates get them overwritten, rows without get them appended.
project_to_target_fidelity(X, d, targets) ==
    [i \in 1..Len(X) |->
        IF Len(X[i]) = d
        THEN [j \in 1..d |-> IF j \in DOMAIN targets THEN targets[j] ELSE X[i][j]]
        ELSE X[i] \o [j \in 1..(d - Len(X[i])) |-> targets[Len(X[i]) + j]]]

\* model.posterior(X.unsqueeze(-2)).mean.squeeze(-2)
PosteriorMean(m, X) == [i \in 1..Len(X) |-> m[X[i]]]

\* Sum of the values of the function f over the set S.
RECURSIVE SumOver(_, _)
SumOver(f, S) ==
    IF S = {} THEN 0
    ELSE LET x == CHOOSE x \in S : TRUE IN f[x] + SumOver(f, S \ {x})

SetMax(S) == CHOOSE x \in S : \A y \in S : y <= x

\* FastNondominatedPartitioning(ref_point, Y).compute_hypervolume() for two
\* objectives: the area of the union of the boxes [ref_point, y].
compute_hypervolume(ref, Y) ==
    LET P == { <<Y[i][1] - ref[1], Y[i][2] - ref[2]>> : i \in 1..Len(Y) }
        Q == { q \in P : q[1] > 0 /\ q[2] > 0 }
        A == { q[1] : q \in Q }
        Strip == [a \in A |->
                    (a - SetMax({0} \cup { b \in A : b < a }))
                        * SetMax({ q[2] : q \in { r \in Q : r[1] >= a } })]
    IN  SumOver(Strip, A)

\* ------------------------------------------------------------------------
\* Pareto evaluator
\* ------------------------------------------------------------------------

\* Variant of normalized_target_fidelities: the lower bound taken for the
\* normalised target.
normalized_target_fidelities_lb ==
    [idx \in DOMAIN target_fidelities |-> standard_bounds[1][idx]]

\* normalized_target_fidelities[idx] = (fidelity - lb) / (ub - lb)
normalized_target_fidelities ==
    [idx \in DOMAIN target_fidelities |->
        LET lb == standard_bounds[1][idx]
            ub == standard_bounds[2][idx]
        IN  ((target_fidelities[idx] - lb) * Scale) \div (ub - lb)]

\* project_d = dim_x
project_d == dim_x

\* project(X)
project(X) == project_to_target_fidelity(X, project_d, normalized_target_fidelities)

\* discrete_set[:, -1] = 1.0
SetLastToOne(X) == [i \in 1..Len(X) |-> [X[i] EXCEPT ![Len(X[i])] = Scale]]

\* The candidate set of the discretized definition.
DiscreteCandidates(R, mf) == SetLastToOne(IF mf THEN project(R) ELSE R)

\* The designs the NSGA-II definition hands to the model.
NSGACandidates(R, mf) == IF mf THEN project(R) ELSE R

\* The loop over chunks: preds of discrete_set[start : start + CHUNK_SIZE],
\* concatenated (start counted from 1).
RECURSIVE ChunkedPreds(_, _, _)
ChunkedPreds(m, X, start) ==
    IF start > Len(X) THEN <<>>
    ELSE LET stop == IF start + CHUNK_SIZE - 1 < Len(X)
                     THEN start + CHUNK_SIZE - 1 ELSE Len(X)
         IN  PosteriorMean(m, SubSeq(X, start, stop))
                 \o ChunkedPreds(m, X, start + CHUNK_SIZE)

\* Variant of MaskSelect: the mask is ignored.
MaskSelect_all(X, mask) == X

\* X[mask]
RECURSIVE MaskSelect(_, _)
MaskSelect(X, mask) ==
    IF X = <<>> THEN <<>>
    ELSE (IF mask[1] THEN <<X[1]>> ELSE <<>>) \o MaskSelect(Tail(X), Tail(mask))

\* The try statement without its except clause: a failed import leaves the
\* name get_pareto unbound.
get_pareto_def_no_except(outcome) ==
    IF outcome = "ok" THEN "nsga2" ELSE "undefined"

\* try: ... def get_pareto (NSGA-II); except ImportError: ... def get_pareto
\* (discrete set): the definition bound to the name after the statement.
get_pareto_def(outcome) ==
    IF outcome = "ok" THEN "nsga2" ELSE "discrete"

\* The try block of the evaluation cell: the pymoo imports succeed and the
\* NSGA-II get_pareto is defined, or ImportError is caught and the
\* discretized get_pareto is defined.
ImportPymoo ==
    /\ pc = "import"
    /\ \E outcome \in {"ok", "ImportError"} :
         /\ pymoo_import' = outcome
         /\ get_pareto' = get_pareto_def(outcome)
    /\ pc' = "eval"
    /\ UNCHANGED <<invVars, SMOKE_TEST, strategy, genVars, dataVars, loopVars,
                   paretoLocals,
                   hypervolume>>

\* get_pareto, "Optimize the posterior mean using NSGA-II": res.X is any
\* non-empty set of designs within xl = 0, xu = 1.
get_pareto_nsga2 ==
    /\ pc = "eval"
    /\ get_pareto = "nsga2"
    /\ \E mf \in BOOLEAN, R \in SeqsOf(ParetoRand, 1, MaxFront) :
       \E m \in [{ NSGACandidates(<<r>>, mf)[1] : r \in ParetoRand } -> PredVals] :
         /\ is_mf_model' = mf
         /\ model' = m
         /\ rand_X' = R
         /\ discrete_set' = NSGACandidates(R, mf)
         /\ preds' = PosteriorMean(m, discrete_set')
         /\ pareto_mask' = is_non_dominated(preds')
         /\ pareto_X' = MaskSelect(discrete_set', pareto_mask')
         /\ true_X' = unnormalize(IF mf THEN pareto_X' ELSE project(pareto_X'),
                                  BC_bounds)
         /\ hypervolume' = compute_hypervolume(BC_ref_point, BC(true_X'))
    /\ pc' = "evaluated"
    /\ UNCHANGED <<invVars, SMOKE_TEST, strategy, genVars, dataVars, loopVars,
                   pymoo_import,
                   get_pareto>>

\* get_pareto, "Optimize the posterior mean over a discrete set".
get_pareto_discrete ==
    /\ pc = "eval"
    /\ get_pareto = "discrete"
    /\ \E mf \in BOOLEAN, R \in [1..NUM_DISCRETE_POINTS -> ParetoRand] :
       \E m \in [{ DiscreteCandidates(<<r>>, mf)[1] : r \in ParetoRand } -> PredVals] :
         /\ is_mf_model' = mf
         /\ model' = m
         /\ rand_X' = R
         /\ discrete_set' = DiscreteCandidates(R, mf)
         /\ preds' = ChunkedPreds(m, discrete_set', 1)
         /\ pareto_mask' = is_non_dominated(preds')
         /\ pareto_X' = MaskSelect(discrete_set', pareto_mask')
         /\ true_X' = unnormalize(IF mf THEN pareto_X' ELSE project(pareto_X'),
                                  BC_bounds)
         /\ hypervolume' = compute_hypervolume(BC_ref_point, BC(true_X'))
    /\ pc' = "evaluated"
    /\ UNCHANGED <<invVars, SMOKE_TEST, strategy, genVars, dataVars, loopVars,
                   pymoo_import,
                   get_pareto>>

\* hvs.append(hypervolume): get_pareto's locals are gone, the next
\* checkpoint of the evaluation loop follows.
NextCheckpoint ==
    /\ pc = "evaluated"
    /\ is_mf_model' = TRUE
    /\ model' = <<>>
    /\ rand_X' = <<>>
    /\ discrete_set' = <<>>
    /\ preds' = <<>>
    /\ pareto_mask' = <<>>
    /\ pareto_X' = <<>>
    /\ true_X' = <<>>
    /\ pc' = "eval"
    /\ UNCHANGED <<invVars, SMOKE_TEST, strategy, genVars, dataVars, loopVars,
                   pymoo_import,
                   get_pareto, hypervolume>>

\* The evaluation cells, from the try block on.
InitPareto ==
    /\ SMOKE_TEST \in BOOLEAN
    /\ strategy = "eval"
    /\ pc = "import"
    /\ n = n_INIT
    /\ gen_total_cost = 0
    /\ train_x = <<>>
    /\ train_obj = <<>>
    /\ total_cost = 0
    /\ iteration = 0
    /\ candidates = <<>>
    /\ vals = 0
    /\ new_x = <<>>
    /\ new_obj = <<>>
    /\ ParetoNotStarted
    /\ InvNotStarted

NextPareto ==
    \/ ImportPymoo
    \/ get_pareto_nsga2
    \/ get_pareto_discrete
    \/ NextCheckpoint

SpecPareto == InitPareto /\ [][NextPareto]_vars

\* costs.append(cost_callable(train_x[:i]).sum().item()): the cost an
\* evaluation checkpoint recomputes from the first i rows of a dataset.
PrefixCost(X, i) == SumSeq(cost_callable(SubSeq(X, 1, i)))

\* ------------------------------------------------------------------------
\* Properties
\* ------------------------------------------------------------------------

\* Every coordinate of every row of X lies within bounds.
InBounds(X, bounds) ==
    \A i \in 1..Len(X) : \A j \in 1..Len(X[i]) :
        bounds[1][j] <= X[i][j] /\ X[i][j] <= bounds[2][j]

\* The last q rows of X.
LastRows(X, q) == SubSeq(X, Len(X) - q + 1, Len(X))

\* C1: the design points gen_init_data(n) returns cost, in total, strictly
\* less than n * cost(1) (and so at most n * cost(1)), for every budget and
\* every sequence of draws.
C1_InitCostUnderBudget ==
    pc = "gen_done" =>
        SumSeq(cost_callable(train_x)) * Scale < n * cost_func(Scale)

\* C1 witness: a call returned two or more points.
C1_Witness ==
    /\ pc = "gen_done"
    /\ Len(train_x) >= 2
    /\ SumSeq(cost_callable(train_x)) * Scale < n * cost_func(Scale)

\* C4: gen_init_data(2) returns a non-empty dataset of total cost below
\* 2 * cost(1); every draw costs at most cost(1), so a second draw is
\* always made and a point survives the drop.
C4_InitNonEmpty ==
    n = n_INIT =>
        /\ \A i \in 1..Len(train_x) : cost_func(Fid(train_x[i])) <= cost_func(Scale)
        /\ pc = "gen_done" =>
             /\ Len(train_x) >= 1
             /\ Len(train_obj) = Len(train_x)
             /\ SumSeq(cost_callable(train_x)) < 2 * cost_func(Scale)

\* C4 witness: gen_init_data(2) returned after three draws, two points
\* surviving.
C4_Witness ==
    /\ pc = "gen_done"
    /\ n = n_INIT
    /\ Len(train_x) = 2
    /\ Len(train_obj) = 2

\* C5: when the first draw alone meets the budget, the only step left is
\* the return of an empty dataset: no further draw, no points, no
\* observations.
C5_FirstDrawOverBudget ==
    [][ (pc = "gen" /\ Len(train_x) = 1
            /\ gen_total_cost * Scale >= n * cost_func(Scale))
        => (pc' = "gen_done" /\ train_x' = <<>> /\ train_obj' = <<>>
            /\ gen_total_cost' = gen_total_cost) ]_vars

\* C5 witness: a call returned the empty dataset, its budget met.
C5_Witness ==
    /\ pc = "gen_done"
    /\ train_x = <<>>
    /\ train_obj = <<>>
    /\ gen_total_cost * Scale >= n * cost_func(Scale)

\* C2: every loop of the smoke-test run ends, and ends with the ledger at
\* or above EVAL_BUDGET * cost(1).
C2_LoopsTerminate ==
    /\ (pc = "loop") ~> (pc = "done")
    /\ [](pc = "done" => total_cost * Scale >= 2100 * cost_func(Scale) - Scale)

\* C2 witness: a loop ended after fifty or more iterations.
C2_Witness ==
    /\ pc = "done"
    /\ iteration >= 50
    /\ total_cost >= BudgetLimit

\* C3 as stated: in all three loops a zero acquisition value means the
\* observed and appended candidate has fidelity 0.
C3_ZeroValueAllLoops ==
    /\ (pc = "update" /\ vals = 0) =>
          \A i \in 1..Len(new_x) : Fid(new_x[i]) = 0
    /\ (pc \in {"loop", "done"} /\ iteration > 0 /\ vals = 0) =>
          \A i \in 1..BATCH_SIZE : Fid(LastRows(train_x, BATCH_SIZE)[i]) = 0

\* C3 amended: in the MOMF and MF-HVKG loops a zero acquisition value means
\* the candidate is observed and appended at fidelity 0; the qNEHVI loop
\* discards the acquisition value and observes and appends at fidelity 1.
C3_ZeroValueMultiFidelity ==
    /\ (strategy \in {"momf", "kg"} /\ pc = "update" /\ vals = 0) =>
          /\ \A i \in 1..Len(new_x) : Fid(new_x[i]) = 0
          /\ \A i \in 1..Len(new_x) : SubSeq(new_obj[i], 1, 2) = BC_eval(new_x[i])
    /\ (strategy \in {"momf", "kg"} /\ pc \in {"loop", "done"}
            /\ iteration > 0 /\ vals = 0) =>
          \A i \in 1..BATCH_SIZE : Fid(LastRows(train_x, BATCH_SIZE)[i]) = 0
    /\ (strategy = "qnehvi" /\ pc = "update") =>
          \A i \in 1..Len(new_x) : Fid(new_x[i]) = Scale
    /\ (strategy = "qnehvi" /\ pc \in {"loop", "done"} /\ iteration > 0) =>
          \A i \in 1..BATCH_SIZE : Fid(LastRows(train_x, BATCH_SIZE)[i]) = Scale

\* C3 witness: the MF-HVKG loop appended a candidate of zero acquisition
\* value.
C3_Witness ==
    /\ strategy = "kg"
    /\ pc = "loop"
    /\ iteration > 0
    /\ vals = 0
    /\ Fid(train_x[Len(train_x)]) = 0

\* C6: in the MOMF cell the third component of every observation is the
\* fidelity of the design point of the same row, initial and appended rows
\* alike, and likewise for the batch about to be appended.
C6_FidelityObjective ==
    (strategy = "momf" /\ pc \in {"loop", "update", "done"}) =>
        /\ Len(train_obj) = Len(train_x)
        /\ \A i \in 1..Len(train_x) :
              Len(train_obj[i]) = 3 /\ train_obj[i][3] = Fid(train_x[i])
        /\ pc = "update" =>
              \A i \in 1..Len(new_x) : new_obj[i][3] = Fid(new_x[i])

\* C6 witness: the MOMF loop appended two rows, the last with its fidelity
\* forced to 0, on top of initial rows of non-zero fidelity.
C6_Witness ==
    /\ strategy = "momf"
    /\ pc = "loop"
    /\ iteration >= 2
    /\ vals = 0
    /\ train_obj[Len(train_obj)][3] = 0
    /\ train_obj[1][3] > 0

\* C7: every design point of every dataset, and every batch about to be
\* appended, lies in [0,1]^3.
C7_PointsInBounds ==
    /\ InBounds(train_x, BC_bounds)
    /\ InBounds(new_x, BC_bounds)

\* C7 witness: a dataset holding a sampled row of fidelity strictly inside
\* (0,1) and an appended row on the upper bound.
C7_Witness ==
    /\ pc = "done"
    /\ \E i \in 1..Len(train_x) : 0 < Fid(train_x[i]) /\ Fid(train_x[i]) < Scale
    /\ \E i \in 1..Len(train_x) : train_x[i][1] = Scale /\ Fid(train_x[i]) = Scale

\* C8: no step of a loop lowers the ledger or shortens the dataset, and a
\* completed iteration raises the ledger by at least cost(0) = 1 per row
\* and the dataset by BATCH_SIZE rows.
C8_LedgerAndLengthGrow ==
    [][ (pc \in {"loop", "update"}) =>
          ( /\ total_cost' >= total_cost
            /\ Len(train_x') >= Len(train_x)
            /\ Len(train_obj') >= Len(train_obj)
            /\ (iteration' # iteration) =>
                  ( /\ total_cost' >= total_cost + BATCH_SIZE * cost_func(0)
                    /\ cost_func(0) = Scale
                    /\ Len(train_x') = Len(train_x) + BATCH_SIZE
                    /\ Len(train_obj') = Len(train_obj) + BATCH_SIZE ) ) ]_vars

\* C8 witness: a loop completed two iterations.
C8_Witness ==
    /\ pc = "loop"
    /\ iteration >= 2
    /\ total_cost > 0

\* C9: the discretized evaluator's filter keeps a subset of the candidate
\* set, unaltered, and keeps no candidate that another candidate dominates
\* under the posterior mean.
C9_FilterKeepsNonDominatedSubset ==
    (pc = "evaluated" /\ get_pareto = "discrete") =>
        /\ Len(pareto_X) <= Len(discrete_set)
        /\ \A i \in 1..Len(pareto_X) :
              \E j \in 1..Len(discrete_set) : discrete_set[j] = pareto_X[i]
        /\ \A i \in 1..Len(pareto_X) : \A j \in 1..Len(discrete_set) :
              ~Dominates(model[discrete_set[j]], model[pareto_X[i]])

\* C9 witness: the filter dropped a dominated candidate of the last chunk
\* and kept two others.
C9_Witness ==
    /\ pc = "evaluated"
    /\ get_pareto = "discrete"
    /\ Len(discrete_set) = NUM_DISCRETE_POINTS
    /\ Len(pareto_X) = 2
    /\ ~pareto_mask[NUM_DISCRETE_POINTS]
    /\ \E j \in 1..Len(discrete_set) :
          Dominates(preds[j], preds[NUM_DISCRETE_POINTS])

\* C10: the hypervolume get_pareto returns is at most BC.max_hv, for both
\* definitions and both settings of is_mf_model: the designs evaluated on the
\* true function are in bounds and at the target fidelity.
C10_HypervolumeAtMostMax ==
    pc = "evaluated" =>
        /\ hypervolume <= BC_max_hv
        /\ InBounds(true_X, BC_bounds)
        /\ \A i \in 1..Len(true_X) : Fid(true_X[i]) = Scale

\* C10 witness: the NSGA-II definition, given a model without fidelity
\* input, returned the hypervolume of two designs.
C10_Witness ==
    /\ pc = "evaluated"
    /\ get_pareto = "nsga2"
    /\ ~is_mf_model
    /\ Len(true_X) >= 2
    /\ hypervolume > 0
    /\ hypervolume <= BC_max_hv

\* C11: a failed pymoo import is caught and leaves the discretized get_pareto
\* in use, a successful one leaves the NSGA-II get_pareto in use; the import
\* is tried before any checkpoint is evaluated, every checkpoint has exactly
\* one definition to call, and the definition never changes once made.
C11_OneEvaluatorChosenOnce ==
    /\ [](/\ (pymoo_import = "ImportError" => get_pareto = "discrete")
          /\ (pymoo_import = "ok" => get_pareto = "nsga2")
          /\ (pymoo_import = "untried" =>
                (pc = "import" /\ get_pareto = "undefined" /\ hypervolume = 0
                 /\ model = <<>>))
          /\ (pc \in {"eval", "evaluated"} => get_pareto \in {"nsga2", "discrete"})
          /\ (pc = "eval" => ENABLED (get_pareto_nsga2 \/ get_pareto_discrete)))
    /\ [][pymoo_import # "untried" =>
            (get_pareto' = get_pareto /\ pymoo_import' = pymoo_import)]_vars

\* pymoo is missing and a checkpoint has been evaluated by the
\* discretized get_pareto.
C11_Witness ==
    /\ pymoo_import = "ImportError"
    /\ get_pareto = "discrete"
    /\ pc = "evaluated"
    /\ hypervolume > 0
    /\ Len(discrete_set) = NUM_DISCRETE_POINTS

\* Largest error the three-decimal arithmetic can put between F(inv_transform(u))
\* and u: one hundredth.
RoundTripTolerance == Scale \div 100

\* |a - b|
AbsDiff(a, b) == IF a >= b THEN a - b ELSE b - a

\* C12: inv_transform inverts the CDF F of the density proportional to
\* 1/cost: F(inv_transform(u)) = u for every u in [0, 1] (to the precision of
\* the arithmetic), inv_transform(0) = 0, inv_transform(1) = 1, and a larger u
\* never gives a smaller fidelity, and a distinctly larger u a larger one.
C12_InvTransformInvertsCDF ==
    pc = "inv_done" =>
        /\ Len(inv_s) = Len(inv_u)
        /\ \A i \in 1..Len(inv_u) :
             /\ AbsDiff(FidelityCDF(inv_s[i]), inv_u[i]) <= RoundTripTolerance
             /\ inv_s[i] \in 0..Scale
             /\ (inv_u[i] = 0 => inv_s[i] = 0)
             /\ (inv_u[i] = Scale => inv_s[i] = Scale)
        /\ \A i, j \in 1..Len(inv_u) :
             /\ (inv_u[i] <= inv_u[j] => inv_s[i] <= inv_s[j])
             /\ (inv_u[i] + RoundTripTolerance <= inv_u[j] => inv_s[i] < inv_s[j])

\* inv_transform has mapped the pair (0.5, 1.0): the median of the
\* distribution lies far below fidelity 0.5, the end point at 1.
C12_Witness ==
    /\ pc = "inv_done"
    /\ inv_u = <<Scale \div 2, Scale>>
    /\ inv_s[1] > 0
    /\ inv_s[1] < Scale \div 4
    /\ inv_s[2] = Scale

\* C13: in the discretized get_pareto, with is_mf_model set or not, every
\* candidate handed to the model keeps its non-fidelity coordinates exactly as
\* torch.rand drew them, and every design evaluated on the true function is a
\* drawn point with only the fidelity coordinate added, set to 1.0.
C13_DrawnCoordinatesKept ==
    (pc = "evaluated" /\ get_pareto = "discrete") =>
        /\ Len(discrete_set) = Len(rand_X)
        /\ \A i \in 1..Len(rand_X) :
             SubSeq(discrete_set[i], 1, Len(rand_X[i])) = rand_X[i]
        /\ \A k \in 1..Len(true_X) :
             \E i \in 1..Len(rand_X) : true_X[k] = rand_X[i] \o <<Scale>>

C15_LedgerIsDatasetCost ==
    /\ [](pc \in {"loop", "update", "done"} =>
            total_cost = PrefixCost(train_x, Len(train_x)))
    /\ [][ (pc = "update") =>
             ( /\ PrefixCost(train_x', Len(train_x)) = total_cost
               /\ PrefixCost(train_x', Len(train_x')) = total_cost' ) ]_vars

\* A multi-fidelity loop tests its budget after two iterations, one of them
\* at a fidelity below 1, so that the ledger is not a multiple of cost(1).
C15_Witness ==
    /\ pc = "loop"
    /\ strategy \in {"momf", "kg"}
    /\ iteration = 2
    /\ \E i \in 1..Len(train_x) : Fid(train_x[i]) \notin {0, Scale}
    /\ total_cost > Len(train_x) * cost_func(0)
    /\ total_cost < Len(train_x) * cost_func(Scale)

\* C16: an iteration starts only with total_cost below EVAL_BUDGET * cost(1),
\* so a loop ends with total_cost below EVAL_BUDGET * cost(1) + BATCH_SIZE *
\* cost(1); the initial dataset costs at most n_INIT * cost(1), which is below
\* EVAL_BUDGET * cost(1), so every loop that ends has made an iteration.
C16_OvershootBelowOneBatch ==
    /\ [](/\ total_cost_limit(n_INIT) < BudgetLimit
          /\ (pc = "loop" /\ iteration = 0) => total_cost <= total_cost_limit(n_INIT)
          /\ (pc = "update") => total_cost < BudgetLimit
          /\ (pc = "done") =>
                ( /\ iteration >= 1
                  /\ total_cost >= BudgetLimit
                  /\ total_cost < BudgetLimit + BATCH_SIZE * cost_func(Scale) ))
    /\ [][ (pc = "loop" /\ pc' = "update") => total_cost < BudgetLimit ]_vars

\* A loop ended after an iteration that began just under the budget and
\* overshot it by more than half a full-fidelity evaluation.
C16_Witness ==
    /\ pc = "done"
    /\ iteration >= 1
    /\ total_cost - AddCost(0, new_x) < BudgetLimit
    /\ 2 * (total_cost - BudgetLimit) > cost_func(Scale)

====
